---- MODULE Spec2Model ----
(***************************************************************************)
(* A model of main.py: transaction validation (Transaction.is_valid), the  *)
(* sorted-concatenation Merkle root, the proof-of-work loop (Block.mine),  *)
(* the ledger (Blockchain) and the Miner that drives them.                 *)
(*                                                                         *)
(* Strings are sequences of characters.  A character is a number 0..15     *)
(* standing for '0'..'9','a'..'f'; the order of the numbers is the order   *)
(* of the characters, so lexicographic comparison is the one Python makes. *)
(***************************************************************************)
EXTENDS Integers, Sequences, FiniteSets, TLC

VARIABLES mempool, transactions, utxo_set, blocks, block, tx, result

vars == <<mempool, transactions, utxo_set, blocks, block, tx, result>>

(***************************************************************************)
(* Bounds of the model.                                                    *)
(***************************************************************************)
\* hex digits of a digest (64 for SHA-256; the model's digest is narrower)
HexLen == 3
\* Block.mine's loop is unbounded; the model follows it up to this nonce
MaxNonce == 48
\* files in the mempool directory, any records in any order
MaxFiles == 2
\* files in a mempool directory that follows one of the Patterns
MaxMempool == 15
\* blocks in the ledger
MaxBlocks == 2
\* inputs and outputs of a transaction given to the validator
MaxVin == 2
MaxVout == 1
\* transactions of a block built directly (not by the Miner)
MaxBlockTxs == 2

(***************************************************************************)
(* Program constants.                                                      *)
(***************************************************************************)
\* main.py:111  self.transactions[:10]
SelectLimit == 10
\* main.py:23  len(json.dumps(...)) > 100000
MaxTxBytes == 100000

(***************************************************************************)
(* Strings.                                                                *)
(***************************************************************************)
Chars == 0..15

Min(a, b) == IF a < b THEN a ELSE b

\* s * n of Python: n copies of the one-character string <<c>>
Repeat(c, n) == [i \in 1..n |-> c]

RECURSIVE Str(_)
\* str(n) for n >= 0: the decimal digits
Str(n) == IF n < 10 THEN <<n>> ELSE Str(n \div 10) \o <<n % 10>>

RECURSIVE StrLess(_, _)
\* a < b on Python strings: lexicographic, a proper prefix is smaller
StrLess(a, b) ==
    IF b = <<>> THEN FALSE
    ELSE IF a = <<>> THEN TRUE
    ELSE IF Head(a) # Head(b) THEN Head(a) < Head(b)
    ELSE StrLess(Tail(a), Tail(b))

RECURSIVE Insert(_, _)
Insert(x, s) ==
    IF s = <<>> THEN <<x>>
    ELSE IF StrLess(x, Head(s)) THEN <<x>> \o s
    ELSE <<Head(s)>> \o Insert(x, Tail(s))

RECURSIVE sorted(_)
\* sorted(list of strings): ascending, duplicates kept
sorted(s) == IF s = <<>> THEN <<>> ELSE Insert(Head(s), sorted(Tail(s)))

RECURSIVE join(_)
\* ''.join(list of strings)
join(s) == IF s = <<>> THEN <<>> ELSE Head(s) \o join(Tail(s))

RECURSIVE IntFromHex(_, _)
IntFromHex(s, acc) ==
    IF s = <<>> THEN acc ELSE IntFromHex(Tail(s), acc * 16 + Head(s))

RECURSIVE IntFromDecimal(_, _)
IntFromDecimal(s, acc) ==
    IF s = <<>> THEN acc ELSE IntFromDecimal(Tail(s), acc * 10 + Head(s))

\* a slip: the digits read in base 10
int10(s) == IntFromDecimal(s, 0)

\* int(s, 16)
int16(s) == IntFromHex(s, 0)

(***************************************************************************)
(* hashlib.sha256(...).hexdigest().  SHA-256 itself is library code; the   *)
(* model keeps what the program relies on: a deterministic function of the *)
(* whole input string whose result is a fixed-width lower-case hex string. *)
(* The digest space is 16^HexLen instead of 16^64.                         *)
(***************************************************************************)
DigestSpace == 16 ^ HexLen

RECURSIVE Compress(_, _)
Compress(s, h) ==
    IF s = <<>> THEN h
    ELSE Compress(Tail(s), (h * 31 + Head(s) + 1) % DigestSpace)

\* the digest as a number
Digest(s) == Compress(s, 7)

\* the digest's hex digits, most significant first, zero padded
hexdigest(v) == [i \in 1..HexLen |-> (v \div (16 ^ (HexLen - i))) % 16]

sha256(s) == hexdigest(Digest(s))

(***************************************************************************)
(* Transaction (main.py:6-56).  json_data is a dict: a function whose      *)
(* domain is the set of keys present.  The key "bytes" stands for          *)
(* len(json.dumps(json_data).encode('utf-8')), which the model takes as    *)
(* given instead of serialising the record.  utxo_set is a dict of which   *)
(* the code reads only the keys: the set of its keys.                      *)
(***************************************************************************)
Has(d, k) == k \in DOMAIN d

Transaction(json_data, utxos) == [json_data |-> json_data, utxo_set |-> utxos]

\* the txid property: the txid of the first input
txid(t) == t.json_data.vin[1].txid

RECURSIVE SumPrevout(_)
\* sum(vin["prevout"]["value"] for vin in ...), every vin having a prevout
SumPrevout(vin) ==
    IF vin = <<>> THEN 0 ELSE Head(vin).prevout.value + SumPrevout(Tail(vin))

RECURSIVE SumValue(_)
\* sum(vout["value"] for vout in ...)
SumValue(vout) ==
    IF vout = <<>> THEN 0 ELSE Head(vout).value + SumValue(Tail(vout))

\* vin["txid"] + str(vin["vout"]): the key looked up in utxo_set
UtxoKey(vin) == vin.txid \o Str(vin.vout)

\* vin.get("is_coinbase", False)
GetIsCoinbase(vin) == IF Has(vin, "is_coinbase") THEN vin.is_coinbase ELSE FALSE

\* what a call does: it returns val, or raises exc
Return(v) == [exc |-> "None", val |-> v]
Raise(e) == [exc |-> e, val |-> FALSE]

validate_witness_data(t) == TRUE

\* lines 36-52, reached when the checks of lines 17-30 have passed
CoinbaseAndWitness(t) ==
    LET j == t.json_data
        is_coinbase == \E i \in 1..Len(j.vin) : GetIsCoinbase(j.vin[i])
    IN  IF is_coinbase /\ (Len(j.vin) # 1 \/ Has(j.vin[1], "prevout"))
        THEN Return(FALSE)
        ELSE IF Has(j, "witness") /\ ~validate_witness_data(t)
        THEN Return(FALSE)
        ELSE Return(TRUE)

\* line 29: the fee check; a vin without "prevout" raises KeyError
FeeCheck(t) ==
    LET j == t.json_data
    IN  IF \E i \in 1..Len(j.vin) : ~Has(j.vin[i], "prevout")
        THEN Raise("KeyError")
        ELSE IF SumPrevout(j.vin) < SumValue(j.vout)
        THEN Return(FALSE)
        ELSE CoinbaseAndWitness(t)

\* a slip: only the first input is looked up
SpendsKnownKeyFirst(t) == UtxoKey(t.json_data.vin[1]) \in t.utxo_set

\* line 25: any(vin["txid"] + str(vin["vout"]) in self.utxo_set ...)
SpendsKnownKey(t) ==
    \E i \in 1..Len(t.json_data.vin) : UtxoKey(t.json_data.vin[i]) \in t.utxo_set

\* a slip: the version's presence is checked, its value is not
VersionPresent(j) == Has(j, "version")

\* line 17
VersionOk(j) == Has(j, "version") /\ j.version \in {1, 2}

is_valid(t) ==
    LET j == t.json_data
    IN  IF ~VersionOk(j)
        THEN Return(FALSE)
        ELSE IF ~Has(j, "locktime") \/ ~(j.locktime = 0 \/ j.locktime > 0)
        THEN Return(FALSE)
        ELSE IF j.vin = <<>> \/ j.vout = <<>>
        THEN Return(FALSE)
        ELSE IF j.bytes > MaxTxBytes
        THEN Return(FALSE)
        ELSE IF SpendsKnownKey(t)
        THEN Return(FALSE)
        ELSE IF \E i \in 1..Len(j.vout) : j.vout[i].value < 0
        THEN Return(FALSE)
        ELSE FeeCheck(t)

(***************************************************************************)
(* The transaction records given to the validator.                         *)
(***************************************************************************)
Opt(key, present, val) == IF present THEN key :> val ELSE <<>>

\* "ab", "ba", "aba", "aa"
TxidAB == <<10, 11>>
TxidBA == <<11, 10>>
TxidABA == <<10, 11, 10>>
TxidAA == <<10, 10>>

Outpoints == {[txid |-> TxidAB, vout |-> 0], [txid |-> TxidBA, vout |-> 1]}

\* an input: an outpoint with a prevout, marked coinbase or not, or a
\* coinbase input without a prevout
Inputs ==
    {o @@ Opt("prevout", f[1], [value |-> 2]) @@ Opt("is_coinbase", f[2], TRUE) :
        o \in Outpoints, f \in {<<TRUE, FALSE>>, <<TRUE, TRUE>>, <<FALSE, TRUE>>}}

Outputs == {[value |-> v] : v \in {0 - 1, 1, 3}}

SeqsUpTo(S, n) == UNION {[1..k -> S] : k \in 0..n}

\* version: absent, 1, 2, 3; locktime: absent, -1, 0; with witness data or
\* without; of the largest size accepted, or one byte more
Headers ==
    {Opt("version", v # 0, v) @@ Opt("locktime", l # 0 - 2, l)
        @@ Opt("witness", f[1], <<>>) @@ ("bytes" :> f[2]) :
        v \in {0, 1, 2, 3}, l \in {0 - 2, 0 - 1, 0},
        f \in {<<FALSE, MaxTxBytes>>, <<TRUE, MaxTxBytes>>, <<FALSE, MaxTxBytes + 1>>}}

\* the records with at most nin inputs and nout outputs
TxRecords(nin, nout) ==
    {h @@ ("vin" :> vin) @@ ("vout" :> vout) :
        h \in Headers, vin \in SeqsUpTo(Inputs, nin),
        vout \in SeqsUpTo(Outputs, nout)}

UtxoSets == {{}, {TxidAB \o <<0>>}}

(***************************************************************************)
(* Block (main.py:58-81).  hash is "" (the empty string) until mine sets   *)
(* it.                                                                     *)
(***************************************************************************)
Block(txs, previous_hash) ==
    [transactions |-> txs, previous_hash |-> previous_hash,
     nonce |-> 0, hash |-> <<>>]

\* the generator of line 71: tx.txid for tx in self.transactions
Txids(txs) == [i \in 1..Len(txs) |-> txid(txs[i])]

\* the string line 72 digests
txid_string(b) == join(sorted(Txids(b.transactions)))

merkle_root(b) == sha256(txid_string(b))

\* a slip: the nonce is left out of the digested string
calculate_hash_without_nonce(b) == sha256(b.previous_hash \o merkle_root(b))

calculate_hash(b) ==
    sha256(b.previous_hash \o Str(b.nonce) \o merkle_root(b))

\* line 79: the test that ends the loop
BelowTarget(hash, target) == int16(hash) < target

RECURSIVE MineLoopStale(_, _)
\* a slip: the nonce is incremented before the test, so the loop leaves a
\* nonce the stored hash was not computed from
MineLoopStale(b, target) ==
    LET hashed == [b EXCEPT !.hash = calculate_hash(b), !.nonce = b.nonce + 1]
    IN  IF BelowTarget(hashed.hash, target)
        THEN [done |-> TRUE, block |-> hashed]
        ELSE IF b.nonce >= MaxNonce
        THEN [done |-> FALSE, block |-> hashed]
        ELSE MineLoopStale(hashed, target)

RECURSIVE MineLoop(_, _)
\* the loop of lines 77-81, followed while nonce <= MaxNonce: the block as
\* the loop leaves it (done), or as it is when the model stops following
MineLoop(b, target) ==
    LET hashed == [b EXCEPT !.hash = calculate_hash(b)]
    IN  IF BelowTarget(hashed.hash, target)
        THEN [done |-> TRUE, block |-> hashed]
        ELSE IF b.nonce >= MaxNonce
        THEN [done |-> FALSE, block |-> hashed]
        ELSE MineLoop([hashed EXCEPT !.nonce = b.nonce + 1], target)

\* line 75: assert len(difficulty) == 64, the length of a digest
DifficultyOk(difficulty) == Len(difficulty) = HexLen

(***************************************************************************)
(* Blockchain (main.py:83-88).                                             *)
(***************************************************************************)
\* a variant that checks the linkage and leaves the chain alone on a mismatch
AddBlockLinked(chain, b) ==
    IF chain # <<>> /\ b.previous_hash # chain[Len(chain)].hash
    THEN chain ELSE Append(chain, b)

add_block(chain, b) == Append(chain, b)

(***************************************************************************)
(* Miner (main.py:90-119).                                                 *)
(***************************************************************************)
\* line 95: "0000ffff" followed by zeros; here one 0, one f, then zeros
MinerDifficulty == [i \in 1..HexLen |-> IF i = 2 THEN 15 ELSE 0]

\* a slip: every block is built on the genesis value
PreviousHashGenesis(chain) == Repeat(0, HexLen)

\* line 114
PreviousHash(chain) ==
    IF chain = <<>> THEN Repeat(0, HexLen) ELSE chain[Len(chain)].hash

\* a slip: no limit
SelectAll(pool) == pool

\* line 111: self.transactions[:10]
select_transactions_for_block(pool) ==
    SubSeq(pool, 1, Min(Len(pool), SelectLimit))

RECURSIVE LoadLoop(_, _, _)
\* the loop of lines 99-104 over the directory listing: the pool it leaves,
\* and the exception that ended it, if one did
LoadLoop(files, pool, utxos) ==
    IF files = <<>> THEN [pool |-> pool, exc |-> "None"]
    ELSE LET t == Transaction(Head(files), utxos)
             r == is_valid(t)
         IN  IF r.exc # "None" THEN [pool |-> pool, exc |-> r.exc]
             ELSE LoadLoop(Tail(files),
                           IF r.val THEN Append(pool, t) ELSE pool, utxos)

(***************************************************************************)
(* The state.  mempool is the listing of the mempool directory, in the     *)
(* order os.listdir gives it.  transactions, utxo_set and blocks are the   *)
(* Miner's fields (blocks is its blockchain's).  block is a Block and tx a *)
(* Transaction used directly.  result is the outcome of the last call: the *)
(* operation, its argument, the exception raised ("None" if none) and the  *)
(* value returned.                                                         *)
(***************************************************************************)
None == <<>>

Outcome(op, arg, exc, val) == [op |-> op, arg |-> arg, exc |-> exc, val |-> val]

NoCall == Outcome("none", None, "None", None)

\* the records the mempool directory may hold
TxFile(version, ident, prevout, outvalue) ==
    [version |-> version, locktime |-> 0, bytes |-> 1,
     vin |-> <<[txid |-> ident, vout |-> 0] @@ Opt("prevout", prevout > 0, [value |-> prevout])>>,
     vout |-> <<[value |-> outvalue]>>]

MempoolRecords ==
    {TxFile(1, TxidAB, 5, 3), TxFile(2, TxidBA, 5, 5),
     TxFile(3, TxidAA, 5, 3), TxFile(1, TxidAA, 2, 3),
     TxFile(2, TxidABA, 5, 0 - 1), TxFile(1, TxidABA, 0, 0)}

\* a long listing: n files, every k-th of them a record that is rejected
Pattern(n, k) ==
    [i \in 1..n |-> IF i % k = 0 THEN TxFile(3, TxidAA, 5, 3)
                    ELSE IF i % 2 = 0 THEN TxFile(2, TxidBA, 5, 5)
                    ELSE TxFile(1, TxidAB, 5, 3)]

Listings ==
    SeqsUpTo(MempoolRecords, MaxFiles)
        \cup {Pattern(n, k) : n \in 0..MaxMempool, k \in {3, MaxMempool + 1}}

\* Miner.__init__ (lines 91-96), the directory holding any listing
Init ==
    /\ mempool \in Listings
    /\ transactions = <<>>
    /\ utxo_set = {}
    /\ blocks = <<>>
    /\ block = None
    /\ tx = None
    /\ result = NoCall

\* Miner.load_transactions
LoadTransactions ==
    /\ Len(transactions) <= MaxFiles
    /\ LET r == LoadLoop(mempool, transactions, utxo_set)
       IN  /\ transactions' = r.pool
           /\ result' = Outcome("load_transactions", None, r.exc, None)
    /\ UNCHANGED <<mempool, utxo_set, blocks, block, tx>>

\* a variant that takes the transactions it mines out of the pool
MineBlockDrain ==
    /\ Len(blocks) < MaxBlocks
    /\ DifficultyOk(MinerDifficulty)
    /\ LET selected == select_transactions_for_block(transactions)
           mined == MineLoop(Block(selected, PreviousHash(blocks)),
                             int16(MinerDifficulty))
       IN  /\ mined.done
           /\ blocks' = add_block(blocks, mined.block)
           /\ transactions' = SubSeq(transactions, Len(selected) + 1, Len(transactions))
           /\ result' = Outcome("mine_block", None, "None", mined.block)
    /\ UNCHANGED <<mempool, utxo_set, block, tx>>

\* Miner.mine_block, when its mining loop ends
MineBlock ==
    /\ Len(blocks) < MaxBlocks
    /\ DifficultyOk(MinerDifficulty)
    /\ LET new_block == Block(select_transactions_for_block(transactions),
                              PreviousHash(blocks))
           mined == MineLoop(new_block, int16(MinerDifficulty))
       IN  /\ mined.done
           /\ blocks' = add_block(blocks, mined.block)
           /\ result' = Outcome("mine_block", None, "None", mined.block)
    /\ UNCHANGED <<mempool, transactions, utxo_set, block, tx>>

Next == LoadTransactions \/ MineBlock

Spec == Init /\ [][Next]_vars

(***************************************************************************)
(* The ledger used directly: Blockchain.add_block is public, and a caller  *)
(* may hand it any block.                                                  *)
(***************************************************************************)
ValidA == Transaction(TxFile(1, TxidAB, 5, 3), {})
ValidB == Transaction(TxFile(2, TxidBA, 5, 5), {})
ValidC == Transaction(TxFile(1, TxidABA, 5, 3), {})

AllF == Repeat(15, HexLen)

\* blocks mined by someone else, on the genesis value or on another hash
LooseBlocks ==
    {MineLoop(Block(txs, p), int16(AllF)).block :
        txs \in {<<>>, <<ValidA>>}, p \in {Repeat(0, HexLen), sha256(<<>>)}}

InitLedger ==
    /\ Init
    /\ mempool \in {<<>>, <<TxFile(1, TxidAB, 5, 3)>>}

\* Blockchain.add_block(b)
AddBlock(b) ==
    /\ Len(blocks) < MaxBlocks
    /\ blocks' = add_block(blocks, b)
    /\ result' = Outcome("add_block", b, "None", None)
    /\ UNCHANGED <<mempool, transactions, utxo_set, block, tx>>

NextLedger == Next \/ \E b \in LooseBlocks : AddBlock(b)

SpecLedger == InitLedger /\ [][NextLedger]_vars

(***************************************************************************)
(* A Block used directly: built from any transactions and previous hash,   *)
(* and mined against any difficulty.                                       *)
(***************************************************************************)
BlockTxs == {ValidA, ValidB, ValidC}

\* the previous hashes for which the first hash of a block of txs is the
\* largest digest, ff...f
TopDigestPrevs(txs) ==
    {p \in [1..HexLen -> Chars] : calculate_hash(Block(txs, p)) = AllF}

PrevHashes(txs) == {Repeat(0, HexLen), sha256(<<>>)} \cup TopDigestPrevs(txs)

Difficulties ==
    {AllF, MinerDifficulty, Repeat(0, HexLen), <<8>> \o Repeat(0, HexLen - 1),
     Repeat(15, HexLen + 1)}

InitBlock ==
    /\ block \in {Block(txs, p) : txs \in SeqsUpTo(BlockTxs, MaxBlockTxs),
                                 p \in PrevHashes(<<>>)}
    /\ mempool = <<>>
    /\ transactions = <<>>
    /\ utxo_set = {}
    /\ blocks = <<>>
    /\ tx = None
    /\ result = NoCall

\* Block.mine(difficulty), when it raises or its loop ends
Mine(difficulty) ==
    /\ IF ~DifficultyOk(difficulty)
       THEN /\ block' = block
            /\ result' = Outcome("mine", difficulty, "AssertionError", None)
       ELSE LET mined == MineLoop(block, int16(difficulty))
            IN  /\ mined.done
                /\ block' = mined.block
                /\ result' = Outcome("mine", difficulty, "None", None)
    /\ UNCHANGED <<mempool, transactions, utxo_set, blocks, tx>>

\* Block.merkle_root()
MerkleRoot ==
    /\ result' = Outcome("merkle_root", None, "None", merkle_root(block))
    /\ UNCHANGED <<mempool, transactions, utxo_set, blocks, block, tx>>

NextBlock == MerkleRoot \/ \E d \in Difficulties : Mine(d)

SpecBlock == InitBlock /\ [][NextBlock]_vars

(***************************************************************************)
(* A Transaction used directly: any record against any UTXO set.           *)
(***************************************************************************)
InitTx ==
    /\ tx \in {Transaction(j, u) : j \in TxRecords(MaxVin, MaxVout), u \in UtxoSets}
    /\ mempool = <<>>
    /\ transactions = <<>>
    /\ utxo_set = {}
    /\ blocks = <<>>
    /\ block = None
    /\ result = NoCall

\* Transaction.is_valid()
IsValid ==
    /\ LET r == is_valid(tx)
       IN  result' = Outcome("is_valid", None, r.exc, r.val)
    /\ UNCHANGED <<mempool, transactions, utxo_set, blocks, block, tx>>

NextTx == IsValid

SpecTx == InitTx /\ [][NextTx]_vars

(***************************************************************************)
(* The claims.                                                             *)
(***************************************************************************)
Returned(op) == result.op = op /\ result.exc = "None"

\* C1: whenever Block.mine returns, the stored hash is the digest of
\* (previous_hash, stored nonce, merkle root) and, as an integer, is
\* strictly below the target the difficulty string denotes.
C1_MineSealsBelowTarget ==
    Returned("mine") =>
        /\ block.hash = sha256(block.previous_hash \o Str(block.nonce)
                               \o merkle_root(block))
        /\ int16(block.hash) < int16(result.arg)

\* Block.mine has returned after searching past nonce 0
C1_Witness ==
    /\ Returned("mine")
    /\ block.nonce > 0
    /\ result.arg = MinerDifficulty

ChainLinked ==
    \A i \in 1..Len(blocks) :
        blocks[i].previous_hash =
            IF i = 1 THEN Repeat(0, HexLen) ELSE blocks[i - 1].hash

AppendOnly ==
    /\ Len(blocks') >= Len(blocks)
    /\ Len(blocks') <= Len(blocks) + 1
    /\ SubSeq(blocks', 1, Len(blocks)) = blocks

\* C2: after any sequence of mine_block calls the ledger is hash-chained
\* from the genesis value, the block mine_block returned is the last one,
\* and a step only ever appends one block, keeping the earlier ones in place.
C2_LedgerHashChained ==
    /\ [](ChainLinked /\ (Returned("mine_block") =>
            blocks # <<>> /\ blocks[Len(blocks)] = result.val))
    /\ [][AppendOnly]_vars

\* two blocks mined, the second on the first
C2_Witness ==
    /\ Returned("mine_block")
    /\ Len(blocks) >= 2
    /\ blocks[1].hash # Repeat(0, HexLen)
    /\ blocks[2].previous_hash = blocks[1].hash

Mismatched(chain, b) ==
    chain # <<>> /\ b.previous_hash # chain[Len(chain)].hash

CoinbaseWithSecondInput(t) ==
    /\ Len(t.json_data.vin) >= 2
    /\ \E i \in 1..Len(t.json_data.vin) : GetIsCoinbase(t.json_data.vin[i])

\* C4: for a transaction with a coinbase input and a second input, is_valid
\* returns false, as a plain result and not as an exception, whether or not
\* the coinbase input carries a prevout.
C4_Original ==
    (result.op = "is_valid" /\ CoinbaseWithSecondInput(tx)) =>
        (result.exc = "None" /\ result.val = FALSE)

\* C5: the block mine_block returns holds exactly the first min(n, 10)
\* transactions of the pool of n, in pool order.
C5_FirstTenSelected ==
    Returned("mine_block") =>
        /\ Len(result.val.transactions) = Min(Len(transactions), 10)
        /\ \A i \in 1..Len(result.val.transactions) :
              result.val.transactions[i] = transactions[i]

\* a pool of more than ten, and a block of the first ten
C5_Witness ==
    /\ Returned("mine_block")
    /\ Len(transactions) > 10
    /\ Len(result.val.transactions) = 10
    /\ \E i \in 1..9 : transactions[i] # transactions[i + 1]

Orderings(n) == {p \in [1..n -> 1..n] : \A i, j \in 1..n : p[i] = p[j] => i = j}

\* C6: merkle_root is the same for every ordering of the block's
\* transactions, and differs when one transaction is replaced by one with a
\* different txid.
C6_Original ==
    Returned("merkle_root") =>
        LET txs == block.transactions
        IN  /\ \A p \in Orderings(Len(txs)) :
                  merkle_root([block EXCEPT !.transactions =
                                  [i \in 1..Len(txs) |-> txs[p[i]]]]) = result.val
            /\ \A i \in 1..Len(txs) : \A t \in BlockTxs :
                  txid(t) # txid(txs[i]) =>
                      merkle_root([block EXCEPT !.transactions[i] = t]) # result.val

\* C7, as stated: against the difficulty ff...f, mine on a fresh block
\* returns with nonce 0.
C7_Original ==
    [][(result'.op = "mine" /\ result'.exc = "None" /\ result'.arg = AllF
            /\ block.nonce = 0 /\ block.hash = <<>>)
          => block'.nonce = 0]_vars

\* C7, amended: against the difficulty ff...f, mine on a fresh block returns
\* with nonce 0 unless the block's first hash is ff...f itself, the one
\* digest that is not below the target.
C7_AllFEndsAtFirstHashBelow ==
    [][(result'.op = "mine" /\ result'.exc = "None" /\ result'.arg = AllF
            /\ block.nonce = 0 /\ block.hash = <<>>
            /\ sha256(block.previous_hash \o <<0>> \o merkle_root(block)) # AllF)
          => (block'.nonce = 0 /\ block'.hash # AllF)]_vars

\* mine against ff...f has returned at nonce 0
C7_Witness ==
    /\ Returned("mine")
    /\ result.arg = AllF
    /\ block.nonce = 0
    /\ block.hash # <<>>
    /\ block.transactions # <<>>

FeeNonNegative(t) ==
    /\ \A i \in 1..Len(t.json_data.vin) : "prevout" \in DOMAIN t.json_data.vin[i]
    /\ SumPrevout(t.json_data.vin) >= SumValue(t.json_data.vout)

Admissible(t) ==
    /\ "version" \in DOMAIN t.json_data
    /\ t.json_data.version \in {1, 2}
    /\ \A i \in 1..Len(t.json_data.vout) : t.json_data.vout[i].value >= 0
    /\ FeeNonNegative(t)

\* C8: every transaction in the pool, and every transaction of every block
\* of the ledger, has version 1 or 2, no negative output value, and input
\* prevout values that sum to at least the output values.
C8_PoolAndBlocksAdmissible ==
    /\ \A i \in 1..Len(transactions) : Admissible(transactions[i])
    /\ \A k \in 1..Len(blocks) : \A i \in 1..Len(blocks[k].transactions) :
          Admissible(blocks[k].transactions[i])

\* a block of transactions, mined from a pool that was loaded from a
\* directory holding a record that is not admissible
C8_Witness ==
    /\ Returned("mine_block")
    /\ result.val.transactions # <<>>
    /\ Len(transactions) < Len(mempool)
    /\ \E i \in 1..Len(mempool) : ~Admissible(Transaction(mempool[i], utxo_set))

DistinctInputs(t) ==
    \A i, k \in 1..Len(t.json_data.vin) :
        (t.json_data.vin[i].txid = t.json_data.vin[k].txid
            /\ t.json_data.vin[i].vout = t.json_data.vin[k].vout) => i = k

NoKnownKey(t) ==
    \A i \in 1..Len(t.json_data.vin) :
        (t.json_data.vin[i].txid \o Str(t.json_data.vin[i].vout)) \notin t.utxo_set

\* C9, as stated: a transaction is_valid accepts has pairwise distinct
\* inputs, and none of its inputs' keys is in the UTXO set.
C9_Original ==
    (Returned("is_valid") /\ result.val) => (DistinctInputs(tx) /\ NoKnownKey(tx))

\* C9, amended: a transaction is_valid accepts has no input whose key,
\* txid followed by the output index, is in the UTXO set.
C9_ValidSpendsNoKnownKey ==
    (Returned("is_valid") /\ result.val) => NoKnownKey(tx)

\* accepted against a non-empty UTXO set, with the same outpoint spent twice
C9_Witness ==
    /\ Returned("is_valid")
    /\ result.val
    /\ tx.utxo_set # {}
    /\ Len(tx.json_data.vin) = 2
    /\ ~DistinctInputs(tx)

\* C10: a mine_block call leaves the pool and the UTXO set as they were,
\* and a mine_block call that follows another with no load between them
\* returns a block of the same transactions.
C10_MineBlockKeepsPool ==
    [][result'.op = "mine_block" =>
          /\ transactions' = transactions
          /\ utxo_set' = utxo_set
          /\ Len(blocks') = Len(blocks) + 1
          /\ (result.op = "mine_block" =>
                 result'.val.transactions = result.val.transactions)]_vars

\* two blocks in a row, of the same non-empty transactions
C10_Witness ==
    /\ Returned("mine_block")
    /\ Len(blocks) >= 2
    /\ blocks[1].transactions # <<>>
    /\ blocks[2].transactions = blocks[1].transactions
    /\ transactions # <<>>

====
